---- MODULE Spec2Model ----
(***************************************************************************)
(* Enrollment, goal tracking and identity merge of experiments/utils.py.   *)
(*                                                                         *)
(* The program state is the Enrollment table of the authenticated users,   *)
(* the session dictionaries of the anonymous visitors, the experiments     *)
(* (displaying flag, known alternatives) and the counter store behind      *)
(* Experiment.increment_participant_count / increment_goal_count.          *)
(* Every public method of a WebUser is one action; `pre` and `last` keep   *)
(* the state before the last call and the call with its return value, so   *)
(* that the effect of one call is a state predicate.  Spec runs the calls  *)
(* one after the other; RaceSpec runs two requests of one authenticated    *)
(* user step by step, one database access at a time; KeySpec runs the      *)
(* calls that ask for the participant identifier while the session key     *)
(* changes; ResolveSpec applies create_user to every combination of its    *)
(* arguments.                                                              *)
(***************************************************************************)
EXTENDS Integers, Sequences, FiniteSets, TLC

\* ------------------------------------------------------------------ bounds
MaxOps == 4          \* calls made in one behaviour
MaxCount == 2        \* largest `count` passed to record_goal
MaxPending == 2      \* longest pending-goal list of a session

\* ---------------------------------------------------------------- universe
None == "None"
CONTROL_GROUP == "control"

Users == {"u1"}                  \* django users (authenticated) making requests
AllUsers == {"u1", "u2"}         \* the rows of the user table
Sessions == {"s1"}               \* django sessions
Experiments == {"e1", "e2"}      \* names known to experiment_manager
UnknownExperiments == {"e0"}     \* names experiment_manager.get() maps to None
ExperimentNames == Experiments \cup UnknownExperiments
Alternatives == {"control", "test"}
Goals == {"g1", "g2"}
SessionKeys == {"k1", "k2"}      \* "k1" is the key session.save() hands out

Pk(u) == CASE u = "u1" -> 1 [] OTHER -> 2

\* The three kinds of WebUser.
DummyUser == [kind |-> "dummy", key |-> "bot"]
AuthenticatedUser(u) == [kind |-> "auth", key |-> u]
SessionUser(s) == [kind |-> "session", key |-> s]
WebUsers ==
    {DummyUser} \cup {AuthenticatedUser(u) : u \in Users}
                \cup {SessionUser(s) : s \in Sessions}

\* Participant identifiers: 'user:%d' % pk and 'session:%s' % key.
UserIdentifier(u) == <<"user", ToString(Pk(u))>>
SessionIdentifier(k) == <<"session", k>>
Identifiers ==
    {UserIdentifier(u) : u \in Users} \cup {SessionIdentifier(k) : k \in SessionKeys}

VARIABLES
    db,            \* Enrollment rows: [Users \X Experiments -> alternative or None]
    session,       \* the session dictionaries
    displaying,    \* Experiment.is_displaying_alternatives()
    alternatives,  \* the alternatives each experiment knows
    pfreq,         \* participant counter: <<experiment, alternative, id>> -> frequency
    gfreq,         \* goal counter: <<experiment, alternative, goal, id>> -> frequency
    verifyHuman,   \* settings.EXPERIMENTS_VERIFY_HUMAN
    pre,           \* the store before the last call
    last,          \* the last call and what it returned
    nops,          \* calls made so far
    threads        \* two requests of one authenticated user running concurrently

vars ==
    <<db, session, displaying, alternatives, pfreq, gfreq, verifyHuman, pre, last, nops,
      threads>>

\* The store as one value, so that the methods are functions from store to store.
St ==
    [db |-> db, session |-> session, displaying |-> displaying,
     alternatives |-> alternatives, pfreq |-> pfreq, gfreq |-> gfreq,
     verifyHuman |-> verifyHuman]

EmptySession ==
    [enrollments |-> [e \in Experiments |-> None],
     goals |-> <<>>,
     verified |-> FALSE,
     session_key |-> None,
     experiments_session_key |-> None]

\* ------------------------------------------------------- the counter store
IncrementParticipantCount(st, e, a, id) ==
    [st EXCEPT !.pfreq[<<e, a, id>>] = @ + 1]

IncrementGoalCount(st, e, a, g, id, count) ==
    [st EXCEPT !.gfreq[<<e, a, g, id>>] = @ + count]

RemoveParticipant(st, e, a, id) ==
    [st EXCEPT !.pfreq[<<e, a, id>>] = 0,
               !.gfreq = [k \in DOMAIN @ |->
                            IF k[1] = e /\ k[2] = a /\ k[4] = id THEN 0 ELSE @[k]]]

ParticipantGoalFrequencies(st, e, a, id) ==
    [g \in Goals |-> st.gfreq[<<e, a, g, id>>]]

EnsureAlternativeExists(st, e, a) ==
    [st EXCEPT !.alternatives[e] = @ \cup {a}]

\* The experiments in the order the loops of the program visit them.
ExperimentOrder == <<"e1", "e2">>

\* ------------------------------------------------------------- the methods
\* Faulty variant of SessionParticipantIdentifier: the identifier is made from the
\* session_key of the moment, not from the cached one.
SessionParticipantIdentifierLive(st, s) ==
    LET d == st.session[s]
        saved == IF d.session_key = None
                 THEN [d EXCEPT !.session_key = "k1"]
                 ELSE d
        d2 == IF d.experiments_session_key = None
              THEN [saved EXCEPT !.experiments_session_key = saved.session_key]
              ELSE d
    IN  [st |-> [st EXCEPT !.session[s] = d2],
         id |-> SessionIdentifier(saved.session_key)]

\* _participant_identifier: the store after the call, and the identifier.
SessionParticipantIdentifier(st, s) ==
    LET d == st.session[s]
        saved == IF d.session_key = None
                 THEN [d EXCEPT !.session_key = "k1"]       \* session.save()
                 ELSE d
        d2 == IF d.experiments_session_key = None
              THEN [saved EXCEPT !.experiments_session_key = saved.session_key]
              ELSE d
    IN  [st |-> [st EXCEPT !.session[s] = d2],
         id |-> SessionIdentifier(d2.experiments_session_key)]

ParticipantIdentifier(st, p) ==
    CASE p.kind = "auth" -> [st |-> st, id |-> UserIdentifier(p.key)]
      [] p.kind = "session" -> SessionParticipantIdentifier(st, p.key)
      [] OTHER -> [st |-> st, id |-> <<"", "">>]

IsVerifiedHuman(st, s) ==
    IF st.verifyHuman THEN st.session[s].verified ELSE TRUE

GetEnrollment(st, p, e) ==
    CASE p.kind = "auth" -> st.db[<<p.key, e>>]
      [] p.kind = "session" -> st.session[p.key].enrollments[e]
      [] OTHER -> None

\* _get_all_enrollments: the <<experiment, alternative>> pairs of a user.
RECURSIVE EnrollmentsFrom(_, _, _)
EnrollmentsFrom(st, p, i) ==
    IF i > Len(ExperimentOrder) THEN <<>>
    ELSE LET e == ExperimentOrder[i]
             a == GetEnrollment(st, p, e)
         IN  IF a # None
             THEN <<(<<e, a>>)>> \o EnrollmentsFrom(st, p, i + 1)
             ELSE EnrollmentsFrom(st, p, i + 1)

GetAllEnrollments(st, p) ==
    IF p.kind = "dummy" THEN <<>> ELSE EnrollmentsFrom(st, p, 1)

\* Faulty variant of AuthSetEnrollment: a user moved to another alternative is
\* removed from the counters of the old one.
AuthSetEnrollmentMoving(st, u, e, a) ==
    LET created == st.db[<<u, e>>] = None
        st1 == IF created THEN [st EXCEPT !.db[<<u, e>>] = a] ELSE st
        enrollment == st1.db[<<u, e>>]
        st2 == IF enrollment # a
               THEN [RemoveParticipant(st1, e, enrollment, UserIdentifier(u))
                        EXCEPT !.db[<<u, e>>] = a]
               ELSE st1
    IN  IncrementParticipantCount(st2, e, a, UserIdentifier(u))

AuthSetEnrollment(st, u, e, a) ==
    LET created == st.db[<<u, e>>] = None
        st1 == IF created THEN [st EXCEPT !.db[<<u, e>>] = a] ELSE st
        enrollment == st1.db[<<u, e>>]
        st2 == IF enrollment # a THEN [st1 EXCEPT !.db[<<u, e>>] = a] ELSE st1
    IN  IncrementParticipantCount(st2, e, a, UserIdentifier(u))

SessionSetEnrollment(st, s, e, a) ==
    LET st1 == [st EXCEPT !.session[s].enrollments[e] = a]
        pi == SessionParticipantIdentifier(st1, s)
    IN  IF IsVerifiedHuman(st1, s)
        THEN IncrementParticipantCount(pi.st, e, a, pi.id)
        ELSE st1

SetEnrollment(st, p, e, a) ==
    CASE p.kind = "auth" -> AuthSetEnrollment(st, p.key, e, a)
      [] p.kind = "session" -> SessionSetEnrollment(st, p.key, e, a)
      [] OTHER -> st

\* The loop of record_goal over the enrollments `es`.
RECURSIVE GoalLoop(_, _, _, _, _)
GoalLoop(st, p, goal, count, es) ==
    IF es = <<>> THEN st
    ELSE LET e == Head(es)[1]
             a == Head(es)[2]
             pi == ParticipantIdentifier(st, p)
             st1 == IF st.displaying[e]
                    THEN IncrementGoalCount(pi.st, e, a, goal, pi.id, count)
                    ELSE st
         IN  GoalLoop(st1, p, goal, count, Tail(es))

\* Faulty variant of AuthRecordGoal: the goal is counted once whatever `count` is.
AuthRecordGoalSingle(st, u, goal, count) ==
    GoalLoop(st, AuthenticatedUser(u), goal, 1,
             GetAllEnrollments(st, AuthenticatedUser(u)))

AuthRecordGoal(st, u, goal, count) ==
    GoalLoop(st, AuthenticatedUser(u), goal, count,
             GetAllEnrollments(st, AuthenticatedUser(u)))

\* Faulty variant of SessionRecordGoal: a goal that is pending already is not
\* appended again.
SessionRecordGoalOnce(st, s, goal, count) ==
    IF IsVerifiedHuman(st, s)
    THEN GoalLoop(st, SessionUser(s), goal, count,
                  GetAllEnrollments(st, SessionUser(s)))
    ELSE IF \E i \in 1..Len(st.session[s].goals) : st.session[s].goals[i] = goal
    THEN st
    ELSE [st EXCEPT !.session[s].goals = Append(@, goal)]

SessionRecordGoal(st, s, goal, count) ==
    IF IsVerifiedHuman(st, s)
    THEN GoalLoop(st, SessionUser(s), goal, count,
                  GetAllEnrollments(st, SessionUser(s)))
    ELSE [st EXCEPT !.session[s].goals = Append(@, goal)]

RecordGoal(st, p, goal, count) ==
    CASE p.kind = "auth" -> AuthRecordGoal(st, p.key, goal, count)
      [] p.kind = "session" -> SessionRecordGoal(st, p.key, goal, count)
      [] OTHER -> st

\* "Replay enrollments" of confirm_human.
RECURSIVE ReplayEnrollments(_, _, _)
ReplayEnrollments(st, s, es) ==
    IF es = <<>> THEN st
    ELSE LET pi == SessionParticipantIdentifier(st, s)
         IN  ReplayEnrollments(
                 IncrementParticipantCount(pi.st, Head(es)[1], Head(es)[2], pi.id),
                 s, Tail(es))

\* "Replay goals" of confirm_human.
RECURSIVE ReplayGoals(_, _, _)
ReplayGoals(st, s, goals) ==
    IF goals = <<>> THEN st
    ELSE ReplayGoals(SessionRecordGoal(st, s, Head(goals), 1), s, Tail(goals))

\* Faulty variant of SessionConfirmHuman: a verified session is replayed again.
SessionConfirmHumanAgain(st, s) ==
    LET st1 == [st EXCEPT !.session[s].verified = TRUE]
        st2 == ReplayEnrollments(st1, s, GetAllEnrollments(st1, SessionUser(s)))
    IN  IF st2.session[s].goals # <<>>
        THEN [ReplayGoals(st2, s, st2.session[s].goals)
                 EXCEPT !.session[s].goals = <<>>]
        ELSE st2

SessionConfirmHuman(st, s) ==
    IF st.session[s].verified THEN st
    ELSE LET st1 == [st EXCEPT !.session[s].verified = TRUE]
             st2 == ReplayEnrollments(st1, s, GetAllEnrollments(st1, SessionUser(s)))
         IN  IF st2.session[s].goals # <<>>
             THEN [ReplayGoals(st2, s, st2.session[s].goals)
                      EXCEPT !.session[s].goals = <<>>]
             ELSE st2

ConfirmHuman(st, p) ==
    IF p.kind = "session" THEN SessionConfirmHuman(st, p.key) ELSE st

\* Faulty variant of AuthCancelEnrollment: the participant is removed from the
\* counters and the row is left in the table.
AuthCancelEnrollmentKeep(st, u, e) ==
    IF st.db[<<u, e>>] = None THEN st
    ELSE RemoveParticipant(st, e, st.db[<<u, e>>], UserIdentifier(u))

AuthCancelEnrollment(st, u, e) ==
    IF st.db[<<u, e>>] = None THEN st
    ELSE [RemoveParticipant(st, e, st.db[<<u, e>>], UserIdentifier(u))
             EXCEPT !.db[<<u, e>>] = None]

\* Faulty variant of SessionCancelEnrollment: the session's mark of a confirmed human
\* is dropped with the enrollment.
SessionCancelEnrollmentFlush(st, s, e) ==
    LET alternative == GetEnrollment(st, SessionUser(s), e)
        pi == SessionParticipantIdentifier(st, s)
    IN  IF alternative # None
        THEN [RemoveParticipant(pi.st, e, alternative, pi.id)
                 EXCEPT !.session[s].enrollments[e] = None,
                        !.session[s].verified = FALSE]
        ELSE st

SessionCancelEnrollment(st, s, e) ==
    LET alternative == GetEnrollment(st, SessionUser(s), e)
        pi == SessionParticipantIdentifier(st, s)
    IN  IF alternative # None
        THEN [RemoveParticipant(pi.st, e, alternative, pi.id)
                 EXCEPT !.session[s].enrollments[e] = None]
        ELSE st

CancelEnrollment(st, p, e) ==
    CASE p.kind = "auth" -> AuthCancelEnrollment(st, p.key, e)
      [] p.kind = "session" -> SessionCancelEnrollment(st, p.key, e)
      [] OTHER -> st

\* The inner loop of incorporate: the goal frequencies of `other` are added
\* to the counters of `self`.
RECURSIVE TransferGoals(_, _, _, _, _, _)
TransferGoals(st, self, e, a, freq, gs) ==
    IF gs = {} THEN st
    ELSE LET g == CHOOSE x \in gs : TRUE
             pi == ParticipantIdentifier(st, self)
         IN  TransferGoals(IncrementGoalCount(pi.st, e, a, g, pi.id, freq[g]),
                           self, e, a, freq, gs \ {g})

\* Faulty variant of IncorporateOne: the enrollment of `self` is not looked at.
IncorporateOneAlways(st, self, other, e, a) ==
    LET st1 == SetEnrollment(st, self, e, a)
        po == ParticipantIdentifier(st1, other)
        st2 == TransferGoals(po.st, self, e, a,
                             ParticipantGoalFrequencies(po.st, e, a, po.id), Goals)
    IN  CancelEnrollment(st2, other, e)

\* Faulty variant of IncorporateOne: the other user's enrollment is cancelled only
\* where its results are discarded.
IncorporateOneElse(st, self, other, e, a) ==
    LET st1 == SetEnrollment(st, self, e, a)
        po == ParticipantIdentifier(st1, other)
        st2 == TransferGoals(po.st, self, e, a,
                             ParticipantGoalFrequencies(po.st, e, a, po.id), Goals)
    IN  IF GetEnrollment(st, self, e) = None
        THEN st2
        ELSE CancelEnrollment(st, other, e)

\* One round of the loop of incorporate, for the enrollment <<e, a>> of `other`.
IncorporateOne(st, self, other, e, a) ==
    LET st1 == SetEnrollment(st, self, e, a)
        po == ParticipantIdentifier(st1, other)
        st2 == TransferGoals(po.st, self, e, a,
                             ParticipantGoalFrequencies(po.st, e, a, po.id), Goals)
    IN  IF GetEnrollment(st, self, e) = None
        THEN CancelEnrollment(st2, other, e)
        ELSE CancelEnrollment(st, other, e)

RECURSIVE IncorporateLoop(_, _, _, _)
IncorporateLoop(st, self, other, es) ==
    IF es = <<>> THEN st
    ELSE IncorporateLoop(IncorporateOne(st, self, other, Head(es)[1], Head(es)[2]),
                         self, other, Tail(es))

RECURSIVE DummyIncorporateLoop(_, _, _)
DummyIncorporateLoop(st, other, es) ==
    IF es = <<>> THEN st
    ELSE DummyIncorporateLoop(CancelEnrollment(st, other, Head(es)[1]), other, Tail(es))

\* Faulty variant of Incorporate: the DummyUser leaves the other user alone.
IncorporateBotIdle(st, self, other) ==
    IF self.kind = "dummy"
    THEN st
    ELSE IncorporateLoop(st, self, other, GetAllEnrollments(st, other))

Incorporate(st, self, other) ==
    IF self.kind = "dummy"
    THEN DummyIncorporateLoop(st, other, GetAllEnrollments(st, other))
    ELSE IncorporateLoop(st, self, other, GetAllEnrollments(st, other))

\* is_enrolled: the store after the call and the boolean returned.  `accepting`
\* is the answer of experiment.is_accepting_new_users(request) and `draw` the
\* one of experiment.random_alternative().
\* Faulty variant of WebUserIsEnrolled: the experiment is not asked whether it displays
\* alternatives.
WebUserIsEnrolledPaused(st, p, name, alternative, accepting, draw) ==
    IF name \in Experiments
    THEN LET st1 == EnsureAlternativeExists(st, name, alternative)
             assigned == GetEnrollment(st1, p, name)
         IN  IF assigned # None
             THEN [st |-> st1, ret |-> (alternative = assigned)]
             ELSE IF accepting
                  THEN [st |-> SetEnrollment(st1, p, name, draw),
                        ret |-> (alternative = draw)]
                  ELSE [st |-> st1, ret |-> (alternative = CONTROL_GROUP)]
    ELSE [st |-> st, ret |-> (alternative = CONTROL_GROUP)]

\* Faulty variant of WebUserIsEnrolled: a user without enrollment is enrolled whether
\* or not the experiment accepts new users.
WebUserIsEnrolledOpen(st, p, name, alternative, accepting, draw) ==
    IF name \in Experiments /\ st.displaying[name]
    THEN LET st1 == EnsureAlternativeExists(st, name, alternative)
             assigned == GetEnrollment(st1, p, name)
         IN  IF assigned # None
             THEN [st |-> st1, ret |-> (alternative = assigned)]
             ELSE [st |-> SetEnrollment(st1, p, name, draw),
                   ret |-> (alternative = draw)]
    ELSE [st |-> st, ret |-> (alternative = CONTROL_GROUP)]

\* Faulty variant of WebUserIsEnrolled: the assigned alternative is not taken as the
\* chosen one.
WebUserIsEnrolledForgetful(st, p, name, alternative, accepting, draw) ==
    IF name \in Experiments /\ st.displaying[name]
    THEN LET st1 == EnsureAlternativeExists(st, name, alternative)
             assigned == GetEnrollment(st1, p, name)
         IN  IF assigned # None
             THEN [st |-> st1, ret |-> (alternative = CONTROL_GROUP)]
             ELSE IF accepting
                  THEN [st |-> SetEnrollment(st1, p, name, draw),
                        ret |-> (alternative = draw)]
                  ELSE [st |-> st1, ret |-> (alternative = CONTROL_GROUP)]
    ELSE [st |-> st, ret |-> (alternative = CONTROL_GROUP)]

WebUserIsEnrolled(st, p, name, alternative, accepting, draw) ==
    IF name \in Experiments /\ st.displaying[name]
    THEN LET st1 == EnsureAlternativeExists(st, name, alternative)
             assigned == GetEnrollment(st1, p, name)
         IN  IF assigned # None
             THEN [st |-> st1, ret |-> (alternative = assigned)]
             ELSE IF accepting
                  THEN [st |-> SetEnrollment(st1, p, name, draw),
                        ret |-> (alternative = draw)]
                  ELSE [st |-> st1, ret |-> (alternative = CONTROL_GROUP)]
    ELSE [st |-> st, ret |-> (alternative = CONTROL_GROUP)]

IsEnrolled(st, p, name, alternative, accepting, draw) ==
    IF p.kind = "dummy"
    THEN [st |-> st, ret |-> (alternative = CONTROL_GROUP)]
    ELSE WebUserIsEnrolled(st, p, name, alternative, accepting, draw)

\* --------------------------------------------------------------- the calls
NoUser == [kind |-> "none", key |-> "none"]

Call(op, self, other, name, alternative, goal, count, accepting, ret) ==
    [op |-> op, self |-> self, other |-> other, name |-> name,
     alternative |-> alternative, goal |-> goal, count |-> count,
     accepting |-> accepting, ret |-> ret]

Threads == {"t1", "t2"}

IdleThread ==
    [pc |-> "idle", op |-> None, user |-> None, name |-> None, candidate |-> None,
     alternative |-> None, enrollment |-> None, created |-> FALSE, raised |-> FALSE,
     ret |-> FALSE, peer |-> None]

NoCall == Call("init", NoUser, NoUser, None, None, None, 0, FALSE, FALSE)

\* The program moves from the current store to `st2` by the call `call`.
Commit(st2, call) ==
    /\ Len(st2.session["s1"].goals) <= MaxPending
    /\ db' = st2.db
    /\ session' = st2.session
    /\ displaying' = st2.displaying
    /\ alternatives' = st2.alternatives
    /\ pfreq' = st2.pfreq
    /\ gfreq' = st2.gfreq
    /\ verifyHuman' = st2.verifyHuman
    /\ pre' = St
    /\ last' = call
    /\ nops' = nops + 1
    /\ UNCHANGED threads

Init ==
    /\ db = [k \in Users \X Experiments |-> None]
    /\ session = [s \in Sessions |-> EmptySession]
    /\ displaying = [e \in Experiments |-> TRUE]
    /\ alternatives = [e \in Experiments |-> Alternatives]
    /\ pfreq = [k \in Experiments \X Alternatives \X Identifiers |-> 0]
    /\ gfreq = [k \in Experiments \X Alternatives \X Goals \X Identifiers |-> 0]
    /\ verifyHuman \in BOOLEAN
    /\ pre = St
    /\ last = NoCall
    /\ nops = 0
    /\ threads = [t \in Threads |-> IdleThread]

\* is_enrolled reaches experiment.is_accepting_new_users(request).
AsksAccepting(st, p, name) ==
    /\ p.kind # "dummy"
    /\ name \in Experiments
    /\ st.displaying[name]
    /\ GetEnrollment(st, p, name) = None

\* The inputs is_accepting_new_users and random_alternative are drawn only
\* where the call reads them.
IsEnrolledCall ==
    \E p \in WebUsers, name \in ExperimentNames, a \in Alternatives :
        \E accepting \in (IF AsksAccepting(St, p, name) THEN BOOLEAN ELSE {FALSE}) :
            \E draw \in (IF accepting THEN alternatives[name] \cup {a} ELSE {a}) :
                LET r == IsEnrolled(St, p, name, a, accepting, draw)
                IN  /\ nops < MaxOps
                    /\ Commit(r.st, Call("is_enrolled", p, NoUser, name, a, None, 0,
                                         accepting, r.ret))

SetEnrollmentCall ==
    \E p \in WebUsers, e \in Experiments, a \in Alternatives :
        /\ nops < MaxOps
        /\ Commit(SetEnrollment(St, p, e, a),
                  Call("set_enrollment", p, NoUser, e, a, None, 0, FALSE, FALSE))

RecordGoalCall ==
    \E p \in WebUsers, g \in Goals, count \in 1..MaxCount :
        /\ nops < MaxOps
        /\ Commit(RecordGoal(St, p, g, count),
                  Call("record_goal", p, NoUser, None, None, g, count, FALSE, FALSE))

ConfirmHumanCall ==
    \E p \in WebUsers :
        /\ nops < MaxOps
        /\ Commit(ConfirmHuman(St, p),
                  Call("confirm_human", p, NoUser, None, None, None, 0, FALSE, FALSE))

IncorporateCall ==
    \E p \in WebUsers, o \in WebUsers :
        /\ nops < MaxOps
        /\ p # o
        /\ Commit(Incorporate(St, p, o),
                  Call("incorporate", p, o, None, None, None, 0, FALSE, FALSE))

\* The experiment is paused or resumed (outside utils.py).
SetDisplaying ==
    \E e \in Experiments :
        /\ nops < MaxOps
        /\ Commit([St EXCEPT !.displaying[e] = ~@],
                  Call("set_displaying", NoUser, NoUser, e, None, None, 0, FALSE, FALSE))

Next ==
    \/ IsEnrolledCall
    \/ SetEnrollmentCall
    \/ RecordGoalCall
    \/ ConfirmHumanCall
    \/ IncorporateCall
    \/ SetDisplaying

Spec == Init /\ [][Next]_vars

\* ------------------------------------------------------------- create_user
\* User-agent headers a request may carry; "" stands for a request without one.
UserAgents ==
    {"", "Mozilla/5.0 (X11; Linux x86_64) Firefox/24.0",
     "Mozilla/5.0 (compatible; Googlebot/2.1; +http://www.google.com/bot.html)",
     "mozilla/5.0 (compatible; bingbot/2.0)", "TWITTERBOT/1.0", "curl/7.30.0"}

\* BOT_REGEX.search on these headers: a bot name occurs in the header, in any case.
BotRegexSearch(agent) ==
    agent \in {"Mozilla/5.0 (compatible; Googlebot/2.1; +http://www.google.com/bot.html)",
               "mozilla/5.0 (compatible; bingbot/2.0)", "TWITTERBOT/1.0"}

\* The user objects of django: the anonymous user and the users of the table.
AnonymousUser == "anonymous"
UserObjects == {AnonymousUser} \cup Users
IsAuthenticated(user) == user \in Users

\* A request: its user and session attributes, where it has them, and its header.
Requests ==
    [present : {TRUE}, has_user : BOOLEAN, user : UserObjects, has_session : BOOLEAN,
     session : Sessions, agent : UserAgents]

\* create_user called with request=None.
NoRequest ==
    [present |-> FALSE, has_user |-> FALSE, user |-> AnonymousUser,
     has_session |-> FALSE, session |-> "s1", agent |-> ""]

\* Faulty variant of CreateUser: the bot check comes after the authenticated user.
CreateUserBotLater(request, sess, user) ==
    LET user1 == IF request.present /\ request.has_user /\ user = None
                 THEN request.user ELSE user
        session1 == IF request.present /\ request.has_session /\ sess = None
                    THEN request.session ELSE sess
    IN  IF user1 # None /\ IsAuthenticated(user1)
        THEN AuthenticatedUser(user1)
        ELSE IF request.present /\ BotRegexSearch(request.agent)
        THEN DummyUser
        ELSE IF session1 # None
        THEN SessionUser(session1)
        ELSE DummyUser

CreateUser(request, sess, user) ==
    LET user1 == IF request.present /\ request.has_user /\ user = None
                 THEN request.user ELSE user
        session1 == IF request.present /\ request.has_session /\ sess = None
                    THEN request.session ELSE sess
    IN  IF request.present /\ BotRegexSearch(request.agent)
        THEN DummyUser
        ELSE IF user1 # None /\ IsAuthenticated(user1)
        THEN AuthenticatedUser(user1)
        ELSE IF session1 # None
        THEN SessionUser(session1)
        ELSE DummyUser

\* create_user is called; the store is not among its arguments.
CreateUserCall ==
    \E request \in Requests \cup {NoRequest}, s \in Sessions \cup {None},
       user \in UserObjects \cup {None} :
        /\ nops < MaxOps
        /\ last' = [op |-> "create_user", request |-> request, session |-> s,
                    user |-> user, ret |-> CreateUser(request, s, user)]
        /\ pre' = St
        /\ nops' = nops + 1
        /\ UNCHANGED <<db, session, displaying, alternatives, pfreq, gfreq,
                       verifyHuman, threads>>

ResolveNext == CreateUserCall

ResolveSpec == Init /\ [][ResolveNext]_vars

\* ------------------------------------------------- the participant identifier
\* _participant_identifier called on its own.
ParticipantIdentifierCall ==
    \E p \in WebUsers :
        /\ nops < MaxOps
        /\ Commit(ParticipantIdentifier(St, p).st,
                  Call("participant_identifier", p, NoUser, None, None, None, 0,
                       FALSE, FALSE))

\* The session gets another session_key (django cycles the key at login); the
\* session data is kept.
CycleKey ==
    \E s \in Sessions, k \in SessionKeys :
        /\ nops < MaxOps
        /\ k # session[s].session_key
        /\ Commit([St EXCEPT !.session[s].session_key = k],
                  Call("cycle_key", SessionUser(s), NoUser, None, None, None, 0,
                       FALSE, FALSE))

\* The calls that ask for the identifier, with the key changing in between.
KeyNext ==
    \/ ParticipantIdentifierCall
    \/ CycleKey
    \/ SetEnrollmentCall
    \/ RecordGoalCall
    \/ ConfirmHumanCall
    \/ IncorporateCall

KeySpec == Init /\ [][KeyNext]_vars

\* ------------------------------------------------- two concurrent requests
\* AuthenticatedUser.set_enrollment and is_enrolled of an authenticated user,
\* one database access per step.  get_or_create is a SELECT followed, when it
\* finds no row, by an INSERT; an INSERT that meets the row of the other
\* request either raises IntegrityError or hands back the row it met.
ThreadStep(t, th) ==
    /\ threads' = [threads EXCEPT ![t] = th]
    /\ UNCHANGED <<session, displaying, alternatives, verifyHuman, pre, last, nops>>

\* `peer` notes where the other request stood when this one began.
Peer(t) == threads[CHOOSE o \in Threads : o # t].pc

StartSetEnrollment(t) ==
    /\ threads[t].pc = "idle"
    /\ \E u \in Users, e \in Experiments, a \in Alternatives :
          ThreadStep(t, [IdleThread EXCEPT !.pc = "get", !.op = "set_enrollment",
                                           !.user = u, !.name = e, !.alternative = a,
                                           !.peer = Peer(t)])
    /\ UNCHANGED <<db, pfreq, gfreq>>

\* is_enrolled up to and including get_enrollment, the choice of the alternative
\* and the entry into set_enrollment.
StartIsEnrolled(t) ==
    /\ threads[t].pc = "idle"
    /\ \E u \in Users, e \in Experiments, c \in Alternatives :
          LET th == [IdleThread EXCEPT !.op = "is_enrolled", !.user = u, !.name = e,
                                       !.candidate = c, !.peer = Peer(t)]
              assigned == db[<<u, e>>]
          IN  IF ~displaying[e]
              THEN ThreadStep(t, [th EXCEPT !.pc = "done", !.ret = (c = CONTROL_GROUP)])
              ELSE IF assigned # None
              THEN ThreadStep(t, [th EXCEPT !.pc = "done", !.ret = (c = assigned)])
              ELSE \E accepting \in BOOLEAN :
                     IF accepting
                     THEN \E draw \in alternatives[e] \cup {c} :
                            ThreadStep(t, [th EXCEPT !.pc = "get", !.alternative = draw])
                     ELSE ThreadStep(t, [th EXCEPT !.pc = "done",
                                                   !.ret = (c = CONTROL_GROUP)])
    /\ UNCHANGED <<db, pfreq, gfreq>>

\* set_enrollment has returned: the value is_enrolled returns.
Returned(th) ==
    [th EXCEPT !.pc = "done",
               !.ret = IF th.op = "is_enrolled" THEN th.candidate = th.alternative
                       ELSE FALSE]

GetOrCreateGet(t) ==
    LET th == threads[t]
        row == db[<<th.user, th.name>>]
    IN  /\ th.pc = "get"
        /\ IF row # None
           THEN ThreadStep(t, [th EXCEPT !.pc = "update", !.enrollment = row])
           ELSE ThreadStep(t, [th EXCEPT !.pc = "create"])
        /\ UNCHANGED <<db, pfreq, gfreq>>

GetOrCreateCreate(t) ==
    LET th == threads[t]
        row == db[<<th.user, th.name>>]
    IN  /\ th.pc = "create"
        /\ IF row = None
           THEN /\ db' = [db EXCEPT ![<<th.user, th.name>>] = th.alternative]
                /\ ThreadStep(t, [th EXCEPT !.pc = "update", !.created = TRUE,
                                            !.enrollment = th.alternative])
           ELSE /\ UNCHANGED db
                /\ \/ ThreadStep(t, Returned([th EXCEPT !.raised = TRUE]))
                   \/ ThreadStep(t, [th EXCEPT !.pc = "update", !.enrollment = row])
        /\ UNCHANGED <<pfreq, gfreq>>

UpdateAlternative(t) ==
    LET th == threads[t]
    IN  /\ th.pc = "update"
        /\ IF th.enrollment # th.alternative
           THEN db' = [db EXCEPT ![<<th.user, th.name>>] = th.alternative]
           ELSE UNCHANGED db
        /\ ThreadStep(t, [th EXCEPT !.pc = "count", !.enrollment = th.alternative])
        /\ UNCHANGED <<pfreq, gfreq>>

CountParticipant(t) ==
    LET th == threads[t]
    IN  /\ th.pc = "count"
        /\ pfreq' = IncrementParticipantCount(St, th.name, th.alternative,
                                              UserIdentifier(th.user)).pfreq
        /\ ThreadStep(t, Returned(th))
        /\ UNCHANGED <<db, gfreq>>

RaceNext ==
    \E t \in Threads :
        \/ StartSetEnrollment(t)
        \/ StartIsEnrolled(t)
        \/ GetOrCreateGet(t)
        \/ GetOrCreateCreate(t)
        \/ UpdateAlternative(t)
        \/ CountParticipant(t)

RaceSpec == Init /\ [][RaceNext]_vars

\* ------------------------------------------------------------ measurements
RECURSIVE SumOver(_, _)
SumOver(f, S) ==
    IF S = {} THEN 0
    ELSE LET x == CHOOSE y \in S : TRUE IN f[x] + SumOver(f, S \ {x})

\* How often `id` was counted as a participant of `e`, over all alternatives.
ParticipantFrequency(st, e, id) ==
    SumOver([a \in Alternatives |-> st.pfreq[<<e, a, id>>]], Alternatives)

\* The alternatives of `e` that count `id` as a participant.
CountedIn(st, e, id) == {a \in Alternatives : st.pfreq[<<e, a, id>>] > 0}

\* How often goal `g` occurs in the pending-goal list `goals`.
Occurrences(goals, g) == Cardinality({i \in 1..Len(goals) : goals[i] = g})

\* Both requests have returned; they were calls of `op` by one user on one
\* experiment, and the later one began while the earlier one was running.
RaceOver(op) ==
    /\ \A t \in Threads : threads[t].pc = "done" /\ threads[t].op = op
    /\ threads["t1"].user = threads["t2"].user
    /\ threads["t1"].name = threads["t2"].name
    /\ \E t \in Threads : threads[t].peer \notin {"idle", "done"}

\* ------------------------------------------------------------------ claims
\* C1: two concurrent set_enrollment calls of one authenticated user for an
\* experiment it was never enrolled in increment the participant counter of
\* the experiment exactly once for the user's identifier, whatever the
\* interleaving.
C1_IncrementedOnce ==
    RaceOver("set_enrollment") =>
        ParticipantFrequency(St, threads["t1"].name,
                             UserIdentifier(threads["t1"].user)) = 1

\* C2: in a race of two first set_enrollment calls of one authenticated user
\* the stored alternative, once both have returned, is the one of the call that
\* inserted the row; the other call has not overwritten it.
C2_FirstInsertWins ==
    RaceOver("set_enrollment") =>
        \E t \in Threads :
            /\ threads[t].created
            /\ db[<<threads[t].user, threads[t].name>>] = threads[t].alternative

\* C3: two concurrent is_enrolled calls of one not yet enrolled authenticated
\* user that both drew an alternative each answer relative to the alternative
\* stored once both have returned.
C3_AnswersFromStored ==
    (RaceOver("is_enrolled") /\ \A t \in Threads : threads[t].alternative # None) =>
        \A t \in Threads :
            threads[t].ret =
                (threads[t].candidate = db[<<threads[t].user, threads[t].name>>])

\* The identifier a session uses in the counter store, once it has one.
SessionId(st, s) == SessionIdentifier(st.session[s].experiments_session_key)

\* The last call was `op` made by a user of kind `kind`.
LastWas(op, kind) == last.op = op /\ last.self.kind = kind

\* The last call was self.incorporate(other) of an authenticated user on a session.
LastMerge ==
    /\ LastWas("incorporate", "auth")
    /\ last.other.kind = "session"

\* How often the session recorded goal `g` for its enrollment <<e, a>>: what the
\* counter store holds under its identifier plus what waits in its pending list.
RecordedGoals(st, s, e, a, g) ==
    (IF st.session[s].experiments_session_key = None THEN 0
     ELSE st.gfreq[<<e, a, g, SessionId(st, s)>>])
    + Occurrences(st.session[s].goals, g)

\* C4: after durable.incorporate(transient), for every experiment in which the
\* transient identity was enrolled with alternative a and the durable one was
\* not enrolled, the durable identity is enrolled with a and each goal counter
\* of <<e, a>> under the durable identifier has grown by the number of times
\* the transient identity recorded the goal, verified or not.
C4_MergeKeepsGoals ==
    LastMerge =>
        LET u == last.self.key
            s == last.other.key
        IN  \A e \in Experiments :
              LET a == pre.session[s].enrollments[e]
              IN  (a # None /\ pre.db[<<u, e>>] = None) =>
                    /\ db[<<u, e>>] = a
                    /\ \A g \in Goals :
                          gfreq[<<e, a, g, UserIdentifier(u)>>]
                            = pre.gfreq[<<e, a, g, UserIdentifier(u)>>]
                              + RecordedGoals(pre, s, e, a, g)

\* C5: if the durable identity is enrolled in e with alternative b before
\* durable.incorporate(transient), then afterwards it is still enrolled with
\* b, and no goal counter and no participant counter of e has changed under
\* the durable identifier.
C5_MergeDiscard ==
    LastMerge =>
        LET u == last.self.key
        IN  \A e \in Experiments :
              pre.db[<<u, e>>] # None =>
                /\ db[<<u, e>>] = pre.db[<<u, e>>]
                /\ \A a \in Alternatives :
                      /\ pfreq[<<e, a, UserIdentifier(u)>>]
                           = pre.pfreq[<<e, a, UserIdentifier(u)>>]
                      /\ \A g \in Goals :
                            gfreq[<<e, a, g, UserIdentifier(u)>>]
                              = pre.gfreq[<<e, a, g, UserIdentifier(u)>>]

\* C5 witness: a merge in which the durable identity was enrolled in an
\* experiment and the transient one in another alternative of it.
C5_Witness ==
    /\ LastMerge
    /\ \E e \in Experiments :
          /\ pre.db[<<last.self.key, e>>] # None
          /\ pre.session[last.other.key].enrollments[e] # None
          /\ pre.session[last.other.key].enrollments[e] # pre.db[<<last.self.key, e>>]
          /\ \E g \in Goals :
                RecordedGoals(pre, last.other.key, e,
                              pre.session[last.other.key].enrollments[e], g) > 0

\* C6: after durable.incorporate(transient) the transient identity has no
\* enrollment, no pending goals, and its identifier is counted as a participant
\* of no alternative of any experiment it was enrolled in.
C6_NoResidualState ==
    (LastMerge /\ \E e \in Experiments :
                     pre.session[last.other.key].enrollments[e] # None) =>
        LET s == last.other.key
        IN  /\ \A e \in Experiments : session[s].enrollments[e] = None
            /\ session[s].goals = <<>>
            /\ \A e \in Experiments :
                  pre.session[s].enrollments[e] # None =>
                      CountedIn(St, e, SessionId(St, s)) = {}

\* The session has not been confirmed human and verification is switched on.
Unverified(st, s) == st.verifyHuman /\ ~st.session[s].verified

\* confirm_human of the unverified session `s` has moved the counters from those
\* of `pre` by one participant per enrollment and, in the experiments of
\* `replayed`, by the occurrences of each pending goal.
Replayed(s, replayed) ==
    LET enr == pre.session[s].enrollments
        sid == SessionId(St, s)
    IN  /\ session[s].goals = <<>>
        /\ \A k \in DOMAIN pfreq :
              pfreq[k] = pre.pfreq[k]
                         + (IF enr[k[1]] = k[2] /\ k[3] = sid THEN 1 ELSE 0)
        /\ \A k \in DOMAIN gfreq :
              gfreq[k] = pre.gfreq[k]
                         + (IF enr[k[1]] = k[2] /\ k[4] = sid /\ k[1] \in replayed
                            THEN Occurrences(pre.session[s].goals, k[3]) ELSE 0)

\* What C7 says of record_goal before, and of confirm_human after, the first
\* confirm_human.
C7Frame ==
    /\ (LastWas("record_goal", "session") /\ Unverified(pre, last.self.key)) =>
          (pfreq = pre.pfreq /\ gfreq = pre.gfreq)
    /\ (LastWas("confirm_human", "session") /\ pre.session[last.self.key].verified) =>
          St = pre

\* C7: for a session enrolled while unverified, record_goal before
\* confirm_human changes no counter; the first confirm_human adds one
\* participant for each enrolled experiment's stored alternative, adds every
\* pending goal to the goal counter as often as it was recorded, and empties
\* the pending list; a later confirm_human changes nothing.
C7_VerificationReplay ==
    /\ C7Frame
    /\ (LastWas("confirm_human", "session") /\ Unverified(pre, last.self.key)) =>
          Replayed(last.self.key, Experiments)

\* C7 amended: as C7, the pending goals being added for the enrolled
\* experiments that display alternatives when confirm_human runs, and for no
\* other.
C7_ReplayWhereDisplaying ==
    /\ C7Frame
    /\ (LastWas("confirm_human", "session") /\ Unverified(pre, last.self.key)) =>
          Replayed(last.self.key, {e \in Experiments : pre.displaying[e]})

\* C7 witness: the first confirm_human of an enrolled session with a goal
\* recorded twice.
C7_Witness ==
    /\ LastWas("confirm_human", "session")
    /\ Unverified(pre, last.self.key)
    /\ \E e \in Experiments :
          /\ pre.session[last.self.key].enrollments[e] # None
          /\ pre.displaying[e]
          /\ \E g \in Goals :
                /\ Occurrences(pre.session[last.self.key].goals, g) = 2
                /\ gfreq[<<e, pre.session[last.self.key].enrollments[e], g,
                           SessionId(St, last.self.key)>>] = 2

\* The last call was made by the DummyUser of a bot request.
LastByBot == last.self = DummyUser

BotAnswer == last.op = "is_enrolled" => last.ret = (last.alternative = CONTROL_GROUP)

\* C8: no call of a DummyUser changes a counter or a stored enrollment, and its
\* is_enrolled is true exactly for the control group.
C8_BotIsolation ==
    LastByBot => (St = pre /\ BotAnswer)

\* C8 amended: every call of a DummyUser but incorporate leaves the store as it
\* was, and is_enrolled is true exactly for the control group;
\* incorporate(other) cancels every enrollment of `other` (the enrollment is
\* removed, its participant and goal frequencies are set to zero) and changes
\* nothing else.
C8_BotIsolationButMerge ==
    LastByBot =>
        /\ BotAnswer
        /\ last.op # "incorporate" => St = pre
        /\ last.op = "incorporate" =>
              LET o == last.other
                  oid == ParticipantIdentifier(St, o).id
                  cancelled(e, a) == GetEnrollment(pre, o, e) = a
              IN  /\ \A e \in Experiments : GetEnrollment(St, o, e) = None
                  /\ \A p \in WebUsers \ {o} : \A e \in Experiments :
                        GetEnrollment(St, p, e) = GetEnrollment(pre, p, e)
                  /\ \A k \in DOMAIN pfreq :
                        pfreq[k] = IF cancelled(k[1], k[2]) /\ k[3] = oid
                                   THEN 0 ELSE pre.pfreq[k]
                  /\ \A k \in DOMAIN gfreq :
                        gfreq[k] = IF cancelled(k[1], k[2]) /\ k[4] = oid
                                   THEN 0 ELSE pre.gfreq[k]

\* C8 witness: a bot request has incorporated a user that was enrolled and
\* counted.
C8_Witness ==
    /\ LastByBot
    /\ last.op = "incorporate"
    /\ \E k \in DOMAIN pfreq :
          /\ pre.pfreq[k] > 0
          /\ pfreq[k] = 0
          /\ GetEnrollment(pre, last.other, k[1]) = k[2]

\* C9: is_enrolled for an experiment name that is unknown, or whose experiment
\* does not display alternatives, is true exactly for the control group,
\* whatever enrollment is stored, and changes nothing.
C9_ControlUnlessDisplaying ==
    (last.op = "is_enrolled"
       /\ (last.name \notin Experiments \/ ~pre.displaying[last.name])) =>
        /\ last.ret = (last.alternative = CONTROL_GROUP)
        /\ St = pre

\* C9 witness: is_enrolled(e, "test") of a user enrolled in "test" of an
\* experiment that does not display alternatives.
C9_Witness ==
    /\ last.op = "is_enrolled"
    /\ last.name \in Experiments
    /\ ~pre.displaying[last.name]
    /\ GetEnrollment(pre, last.self, last.name) = "test"
    /\ last.alternative = "test"
    /\ ~last.ret

\* Two is_enrolled calls in succession, of one user for one experiment that
\* displays alternatives.
Successive ==
    /\ last.op = "is_enrolled"
    /\ last'.op = "is_enrolled"
    /\ last'.self = last.self
    /\ last'.name = last.name
    /\ last.name \in Experiments
    /\ pre.displaying[last.name]
    /\ displaying[last.name]

\* Once an alternative is stored, is_enrolled answers relative to it and keeps it.
AnswersFromStored ==
    LET stored == GetEnrollment(St, last.self, last.name)
    IN  stored # None =>
          /\ GetEnrollment(St', last.self, last.name) = stored
          /\ last'.ret = (last'.alternative = stored)

\* C10: two successive is_enrolled calls with the same candidate return the
\* same boolean, and once an alternative is stored every is_enrolled call
\* returns (candidate = stored) and leaves it stored.
C10_SameAnswer ==
    [][Successive =>
          /\ AnswersFromStored
          /\ last'.alternative = last.alternative => last'.ret = last.ret]_vars

\* C10 amended: once an alternative is stored every is_enrolled call returns
\* (candidate = stored) and leaves it stored; two successive calls with the
\* same candidate return the same boolean unless the first stored nothing (the
\* experiment was not accepting new users) and the second enrolls the user.
C10_SameAnswerOnceStored ==
    [][Successive =>
          /\ AnswersFromStored
          /\ (last'.alternative = last.alternative
                /\ (GetEnrollment(St, last.self, last.name) # None \/ ~last'.accepting))
             => last'.ret = last.ret]_vars

\* C10 witness: is_enrolled with a candidate that is not the stored alternative
\* of a displaying experiment.
C10_Witness ==
    /\ last.op = "is_enrolled"
    /\ last.name \in Experiments
    /\ pre.displaying[last.name]
    /\ GetEnrollment(pre, last.self, last.name) \notin {None, last.alternative}
    /\ GetEnrollment(St, last.self, last.name) = GetEnrollment(pre, last.self, last.name)
    /\ ~last.ret

\* C11: two distinct authenticated users never have the same participant
\* identifier, and the identifier of a session, once _participant_identifier has
\* stored it, is the one every later call returns, also after the session_key of
\* the session has changed.
C11_StableIdentifier ==
    [][/\ \A u, v \in AllUsers : u # v => UserIdentifier(u) # UserIdentifier(v)
       /\ \A s \in Sessions :
              session[s].experiments_session_key # None =>
                  /\ SessionParticipantIdentifier(St', s).id
                        = SessionParticipantIdentifier(St, s).id
                  /\ SessionParticipantIdentifier(St, s).id
                        = SessionIdentifier(session[s].experiments_session_key)]_vars

\* The identifier is asked for after the key of the session has changed.
C11_Witness ==
    /\ LastWas("participant_identifier", "session")
    /\ pre.session[last.self.key].experiments_session_key # None
    /\ pre.session[last.self.key].session_key
          # pre.session[last.self.key].experiments_session_key
    /\ \E k \in DOMAIN pfreq :
          k[3] = SessionId(St, last.self.key) /\ pfreq[k] > 0

\* set_enrollment moves a user who is enrolled in another alternative.
Moves ==
    /\ last.op = "set_enrollment"
    /\ last.self.kind # "dummy"
    /\ GetEnrollment(pre, last.self, last.name) \notin {None, last.alternative}

\* The counters of the alternative `a` of the last call's experiment are not
\* below what they were before the call.
NotDecremented(a, id) ==
    /\ pfreq[<<last.name, a, id>>] >= pre.pfreq[<<last.name, a, id>>]
    /\ \A g \in Goals :
          gfreq[<<last.name, a, g, id>>] >= pre.gfreq[<<last.name, a, g, id>>]

ResolvedUser ==
    IF last.user # None THEN last.user
    ELSE IF last.request.present /\ last.request.has_user THEN last.request.user
    ELSE None

ResolvedSession ==
    IF last.session # None THEN last.session
    ELSE IF last.request.present /\ last.request.has_session THEN last.request.session
    ELSE None

FromBot == last.request.present /\ BotRegexSearch(last.request.agent)

\* C13: create_user answers with exactly one kind of user, by priority: the
\* DummyUser for a request of a bot whatever user and session come with it, else
\* the AuthenticatedUser of an authenticated user, else the SessionUser of a
\* session, else the DummyUser; the store is as before.
C13_ResolutionPriority ==
    last.op = "create_user" =>
        /\ FromBot => last.ret = DummyUser
        /\ (~FromBot /\ ResolvedUser # None /\ IsAuthenticated(ResolvedUser)) =>
               last.ret = AuthenticatedUser(ResolvedUser)
        /\ (~FromBot /\ ~(ResolvedUser # None /\ IsAuthenticated(ResolvedUser))
              /\ ResolvedSession # None) =>
               last.ret = SessionUser(ResolvedSession)
        /\ (~FromBot /\ ~(ResolvedUser # None /\ IsAuthenticated(ResolvedUser))
              /\ ResolvedSession = None) =>
               last.ret = DummyUser
        /\ last.ret \in WebUsers
        /\ St = pre

\* A bot comes with an authenticated user and a session.
C13_Witness ==
    /\ last.op = "create_user"
    /\ FromBot
    /\ ResolvedUser # None /\ IsAuthenticated(ResolvedUser)
    /\ ResolvedSession # None
    /\ last.ret = DummyUser

\* The enrollments of all users, as stored.
Enrollments(st) ==
    [p \in WebUsers |-> [e \in Experiments |-> GetEnrollment(st, p, e)]]

\* is_enrolled was called by a user without enrollment in a known experiment that
\* displays alternatives.
AskedUnenrolled ==
    last.op = "is_enrolled" /\ AsksAccepting(pre, last.self, last.name)

\* C14: when a user without enrollment asks about an experiment that displays
\* alternatives and does not accept new users, is_enrolled answers as for the
\* control group, stores no enrollment and changes no counter; when the
\* experiment accepts new users, as in a later call, is_enrolled stores an
\* alternative of the experiment for the user and answers by it.
C14_NotAcceptingFallback ==
    AskedUnenrolled =>
        /\ ~last.accepting =>
              /\ last.ret = (last.alternative = CONTROL_GROUP)
              /\ Enrollments(St) = Enrollments(pre)
              /\ pfreq = pre.pfreq
              /\ gfreq = pre.gfreq
        /\ last.accepting =>
              /\ GetEnrollment(St, last.self, last.name) \in alternatives[last.name]
              /\ last.ret = (last.alternative = GetEnrollment(St, last.self, last.name))

\* A session that counts as human asks for "test" while the experiment takes
\* nobody new, after an earlier call.
C14_Witness ==
    /\ AskedUnenrolled
    /\ ~last.accepting
    /\ last.self.kind = "session"
    /\ IsVerifiedHuman(pre, last.self.key)
    /\ last.alternative = "test"
    /\ ~last.ret
    /\ nops >= 2

\* incorporate is called again with the same two users, right after the first call.
IncorporatedAgain ==
    /\ last.op = "incorporate"
    /\ last'.op = "incorporate"
    /\ last'.self = last.self
    /\ last'.other = last.other

\* C15: a second incorporate of the same other user, with no call in between,
\* changes no enrollment of any user and no participant or goal counter.
C15_IncorporateAgain ==
    [][IncorporatedAgain =>
          /\ Enrollments(St') = Enrollments(St)
          /\ pfreq' = pfreq
          /\ gfreq' = gfreq]_vars

\* An authenticated user incorporates a session whose enrollment was merged and
\* cancelled before: the user holds the enrollment and its count, the session has
\* its identifier and nothing else.
C15_Witness ==
    /\ last.op = "incorporate"
    /\ last.self.kind = "auth"
    /\ last.other.kind = "session"
    /\ nops >= 3
    /\ GetAllEnrollments(pre, last.other) = <<>>
    /\ Unverified(pre, last.other.key)
    /\ pre.session[last.other.key].experiments_session_key # None
    /\ \E e \in Experiments :
          /\ GetEnrollment(pre, last.self, e) # None
          /\ pre.pfreq[<<e, GetEnrollment(pre, last.self, e),
                         UserIdentifier(last.self.key)>>] = 1

\* C16: session['experiments_verified_human'] is not set at the start, only a
\* confirm_human of the session sets it, and no call (set_enrollment,
\* record_goal, confirm_human, is_enrolled, incorporate with its cancellations)
\* unsets it.
C16_VerifiedMonotonic ==
    /\ \A s \in Sessions : ~session[s].verified
    /\ [][\A s \in Sessions :
             /\ session[s].verified => session'[s].verified
             /\ (~session[s].verified /\ session'[s].verified) =>
                   /\ last'.op = "confirm_human"
                   /\ last'.self = SessionUser(s)]_vars

\* A confirmed session with an enrollment is incorporated by another user, its
\* enrollment is cancelled and the session is still confirmed.
C16_Witness ==
    /\ last.op = "incorporate"
    /\ last.other.kind = "session"
    /\ pre.session[last.other.key].verified
    /\ GetAllEnrollments(pre, last.other) # <<>>
    /\ GetAllEnrollments(St, last.other) = <<>>
    /\ session[last.other.key].verified

\* C17: for a session that is not a confirmed human, with human verification
\* on, set_enrollment only writes the alternative into the session's
\* enrollments and record_goal only appends the goal to the pending goals,
\* duplicates kept; no counter and nothing else of the store changes.
C17_UnverifiedFrame ==
    /\ (LastWas("set_enrollment", "session") /\ Unverified(pre, last.self.key)) =>
          St = [pre EXCEPT !.session[last.self.key].enrollments[last.name] =
                               last.alternative]
    /\ (LastWas("record_goal", "session") /\ Unverified(pre, last.self.key)) =>
          St = [pre EXCEPT !.session[last.self.key].goals = Append(@, last.goal)]

\* An enrolled session that is not confirmed records a goal that is pending
\* already.
C17_Witness ==
    /\ LastWas("record_goal", "session")
    /\ Unverified(pre, last.self.key)
    /\ GetAllEnrollments(pre, last.self) # <<>>
    /\ Occurrences(pre.session[last.self.key].goals, last.goal) = 1
    /\ Occurrences(session[last.self.key].goals, last.goal) = 2

\* record_goal was called by a user whose goals are counted at once: an
\* authenticated user or a session that counts as human.
RecordedAtOnce ==
    /\ last.op = "record_goal"
    /\ \/ last.self.kind = "auth"
       \/ last.self.kind = "session" /\ IsVerifiedHuman(pre, last.self.key)

\* C18: record_goal(goal, count) of an authenticated user, or of a session that
\* counts as human, adds count to the goal counter of the goal under the user's
\* identifier and stored alternative for exactly the experiments the user is
\* enrolled in that display alternatives; every other goal counter, every
\* participant counter and every enrollment is as before.
C18_GoalCounted ==
    RecordedAtOnce =>
        LET id == ParticipantIdentifier(St, last.self).id
        IN  /\ gfreq = [k \in DOMAIN pre.gfreq |->
                          pre.gfreq[k]
                            + (IF /\ k[3] = last.goal
                                  /\ k[4] = id
                                  /\ pre.displaying[k[1]]
                                  /\ GetEnrollment(pre, last.self, k[1]) = k[2]
                               THEN last.count ELSE 0)]
            /\ pfreq = pre.pfreq
            /\ Enrollments(St) = Enrollments(pre)

\* An authenticated user enrolled in two experiments, one of them displaying
\* alternatives and the other not, records a goal with count 2.
C18_Witness ==
    /\ RecordedAtOnce
    /\ last.self.kind = "auth"
    /\ last.count = 2
    /\ \E e1, e2 \in Experiments :
          /\ GetEnrollment(pre, last.self, e1) # None
          /\ GetEnrollment(pre, last.self, e2) # None
          /\ pre.displaying[e1]
          /\ ~pre.displaying[e2]

\* C19: no goal of a session is lost.  When an authenticated user incorporates a
\* session that is not a confirmed human and is enrolled, with alternative a, in
\* an experiment e that displays alternatives and that the user is not enrolled
\* in, every goal pending in the session is credited once to <<e, a>> under the
\* user's identifier, and no goal stays pending in the session, where a later
\* confirm_human would replay it against other enrollments.
C19_NoGoalLost ==
    (LastMerge /\ Unverified(pre, last.other.key)) =>
        LET u == last.self.key
            s == last.other.key
            merged == {e \in Experiments :
                          /\ pre.session[s].enrollments[e] # None
                          /\ pre.displaying[e]
                          /\ pre.db[<<u, e>>] = None}
        IN  merged # {} =>
              /\ \A e \in merged, g \in Goals :
                    gfreq[<<e, pre.session[s].enrollments[e], g, UserIdentifier(u)>>]
                      - pre.gfreq[<<e, pre.session[s].enrollments[e], g,
                                    UserIdentifier(u)>>]
                      = Occurrences(pre.session[s].goals, g)
              /\ session[s].goals = <<>>

\* No call is in progress.
Quiescent == \A t \in Threads : threads[t].pc \in {"idle", "done"}

\* C20: whenever no call is in progress, every enrollment <<e, a>> stored for an
\* authenticated user, or for a session that counts as human, has the user's
\* identifier counted as a participant of <<e, a>>.
C20_EnrollmentCounted ==
    Quiescent =>
        /\ \A u \in Users, e \in Experiments :
              db[<<u, e>>] # None =>
                  pfreq[<<e, db[<<u, e>>], UserIdentifier(u)>>] > 0
        /\ \A s \in Sessions, e \in Experiments :
              (IsVerifiedHuman(St, s) /\ session[s].enrollments[e] # None) =>
                  /\ session[s].experiments_session_key # None
                  /\ pfreq[<<e, session[s].enrollments[e], SessionId(St, s)>>] > 0

\* A session enrolled while not confirmed has just been confirmed and is counted
\* for its enrollment, next to an authenticated user who holds an enrollment.
C20_Witness ==
    /\ Quiescent
    /\ LastWas("confirm_human", "session")
    /\ Unverified(pre, last.self.key)
    /\ \E e \in Experiments :
          /\ pre.session[last.self.key].enrollments[e] # None
          /\ pfreq[<<e, session[last.self.key].enrollments[e],
                     SessionId(St, last.self.key)>>] = 1
    /\ \E u \in Users, e \in Experiments : db[<<u, e>>] # None
====
